---------------------------- MODULE Spec2Model ----------------------------
(***************************************************************************)
(* Model of the code-execution service of firecracker-rce.                 *)
(*                                                                         *)
(*   src/unnamed/part_000      class FirecrackerRunner ("enhanced"):       *)
(*                             capability probe, result cache, the three   *)
(*                             backends (Firecracker, Docker, VM sandbox), *)
(*                             clearCache and shutdown.                    *)
(*   src/firecracker-runner.js class FirecrackerRunner ("updated"): the    *)
(*                             direct-execution runJavaScript.             *)
(*   src/index.js              the POST /execute handler, outputCache,     *)
(*                             checkFirecracker and executeLocalJS.        *)
(*                                                                         *)
(* JavaScript runs one synchronous block at a time; a block ends at an     *)
(* await.  Every action below is one such block: the completion of the     *)
(* awaited operation together with the synchronous code that follows it,   *)
(* up to the start of the next awaited operation.                          *)
(***************************************************************************)
EXTENDS Integers, Sequences, FiniteSets, TLC

(***************************************************************************)
(* Bounds of the model.                                                    *)
(***************************************************************************)
\* number of runJavaScript calls made on the runner in one behaviour; call i
\* carries the execution id i (uuidv4 never repeats)
MaxCalls == 2
\* number of POST /execute requests made in one behaviour
ApiCalls == 3
\* number of environment faults (a failing filesystem operation, a kill
\* that throws) injected in one behaviour
MaxFaults == 1
\* capacity of the handler's outputCache; stands for the literal 100 of
\* src/index.js:92, scaled down so that capacity+1 insertions are reached
CacheCapacity == 2

(***************************************************************************)
(* Program constants.                                                      *)
(***************************************************************************)
maxVMs == 3

\* the calls it takes to find the pool saturated
GateCalls == maxVMs + 1

Larger(a, b) == IF a > b THEN a ELSE b

Ids == 1..Larger(Larger(MaxCalls, ApiCalls), GateCalls)

(***************************************************************************)
(* Submitted source texts.  A text is identified by its name; what it does *)
(* when run is given by the operators below.                               *)
(*   log1, log2, log3  console.log of a distinct line, then return         *)
(*   warn              console.log and console.error, then return          *)
(*   throw             throw new Error("boom")                             *)
(*   thrownull         throw null                                          *)
(*   loop              while (true) {}                                     *)
(***************************************************************************)
AllCodes == {"log1", "log2", "log3", "warn", "throw", "thrownull", "loop"}

Behaviour(c) ==
  CASE c = "throw" -> "throwError"
    [] c = "thrownull" -> "throwNull"
    [] c = "loop" -> "loop"
    [] OTHER -> "return"

\* what the text writes with console.log / to stdout before it ends
Stdout(c) ==
  CASE c = "log1" -> "one"
    [] c = "log2" -> "two"
    [] c = "log3" -> "three"
    [] c = "warn" -> "partial"
    [] OTHER -> ""

\* what the text writes with console.error / to stderr, as words
Stderr(c) ==
  CASE c = "warn" -> <<"careful">>
    [] c = "throw" -> <<"Error:", "boom">>
    [] c = "thrownull" -> <<"Uncaught", "null">>
    [] OTHER -> <<>>

\* crypto.createHash('md5').update(code).digest('hex'): a digest, distinct
\* for the distinct texts of AllCodes
Md5(c) == <<"md5", c>>

(***************************************************************************)
(* Error messages are sequences of words, so that String.includes can be   *)
(* computed on them.                                                       *)
(***************************************************************************)
Includes(msg, phrase) ==
  \E k \in 1..Len(msg) :
    /\ k + Len(phrase) - 1 <= Len(msg)
    /\ SubSeq(msg, k, k + Len(phrase) - 1) = phrase

\* util.promisify(exec) rejects with "Command failed: <cmd>\n<stderr>"
ExecFailed(cmd, stderr) == <<"Command", "failed:">> \o cmd \o stderr

NodeCmd == <<"node", "codeFile">>
DockerCmd == <<"docker", "run", "--rm", "node:18-alpine", "timeout", "5", "node", "code.js">>

WriteFailedMsg == <<"ENOSPC:", "no", "space", "left", "on", "device,", "write">>
QueueFullMsg == <<"Maximum", "number", "of", "concurrent", "VMs", "reached.">>
ModuleNotFoundMsg == <<"Error:", "Cannot", "find", "module">>
TimedOutMsg == <<"Execution", "timed", "out">>
ScriptTimeoutMsg == <<"Script", "execution", "timed", "out", "after", "5000ms">>

(***************************************************************************)
(* Results.  xid is the vmID / containerId / executionId field (0 when the *)
(* literal has none); fromCache is FALSE when the field is absent.         *)
(***************************************************************************)
Result(s, o, e, m, x) ==
  [success |-> s, output |-> o, error |-> e, mode |-> m, fromCache |-> FALSE, xid |-> x]

NoResult == Result(FALSE, "", <<>>, "none", 0)

VARIABLES
  host,                 \* what the host offers: [fc, docker]
  useFirecracker,       \* this.useFirecracker
  useDocker,            \* this.useDocker
  probe,                \* position of checkAvailableExecutors
  vmCount,              \* this.vmCount
  processes,            \* keys of this.processes
  cache,                \* this.cache, in insertion order
  files,                \* files in this.tempDir, as <<id, kind>>
  socks,                \* control sockets /tmp/firecracker-<id>.sock
  nextId,               \* the next call to be made
  pc,                   \* position of each call
  code,                 \* source text of each call
  via,                  \* "direct": runJavaScript called; "api": POST /execute
  res,                  \* the result a call holds while it unwinds
  rmFailed,             \* artifacts of a call in flight whose deletion failed
  lastRet,              \* the runJavaScript promise settled by the latest step
  faults,               \* environment faults injected so far
  shut,                 \* position of shutdown()
  quiet,                \* "yes": shutdown() has completed, emptying the directory,
                        \* and no call was made since; "no" otherwise
  firecrackerAvailable, \* index.js firecrackerAvailable
  checked,              \* checkFirecracker has completed
  outputCache,          \* index.js outputCache, in insertion order
  insOrder,             \* history: keys of outputCache by time of insertion
  lastResp,             \* the response the /execute handler sent in the latest step
  hung,                 \* the event loop is stuck in a synchronous run
  succeeded,            \* history: the texts a submission of which has
                        \* completed with success = true
  consoleLog,           \* the process-global console.log: 0 is the function of
                        \* the console, i the one request i put in its place
  firstBackend,         \* history: the backend the first request that missed
                        \* the runner's cache was dispatched to
  shutRun               \* history: the shutdown() steps taken in a row, with
                        \* no other step between them: "none", "started",
                        \* "ok" / "failed" (a whole invocation, its emptyDir
                        \* succeeding or failing), "again_ok" / "again_failed"
                        \* (the next invocation has started after it),
                        \* "ok_twice" (that one has succeeded as well)

vars == <<host, useFirecracker, useDocker, probe, vmCount, processes, cache,
          files, socks, nextId, pc, code, via, res, rmFailed, lastRet, faults,
          shut, quiet, firecrackerAvailable, checked, outputCache, insOrder,
          lastResp, hung, succeeded, consoleLog, firstBackend, shutRun>>

runnerVars == <<useFirecracker, useDocker, probe, vmCount, processes, cache, files, socks>>
callVars == <<nextId, pc, code, via, res, rmFailed, firstBackend>>
apiVars == <<firecrackerAvailable, checked, outputCache, insOrder, consoleLog>>

(***************************************************************************)
(* JavaScript Map, kept as the sequence of its entries in insertion order. *)
(***************************************************************************)
MapKeys(m) == {m[k].key : k \in 1..Len(m)}
MapHas(m, key) == key \in MapKeys(m)
MapGet(m, key) == m[CHOOSE k \in 1..Len(m) : m[k].key = key].val

\* Map.prototype.set: a present key keeps its place, a new key goes last
MapSet(m, key, val) ==
  IF MapHas(m, key)
  THEN [k \in 1..Len(m) |-> IF m[k].key = key THEN [key |-> key, val |-> val] ELSE m[k]]
  ELSE Append(m, [key |-> key, val |-> val])

MapDelete(m, key) == SelectSeq(m, LAMBDA e : e.key # key)

\* m.keys().next().value
MapFirstKey(m) == m[1].key

(***************************************************************************)
(* Initial state: the module has been loaded, the constructors have run    *)
(* and started the probes; no probe has completed, no call has been made.  *)
(***************************************************************************)
NoRet == [id |-> 0, kind |-> "none", res |-> NoResult, kept |-> {}]
NoResp == [id |-> 0, status |-> 0, body |-> NoResult]

\* hosts: what the host may offer; f: the faults already spent
Start(hosts, f) ==
  /\ host \in hosts
  /\ useFirecracker = FALSE
  /\ useDocker = FALSE
  /\ probe = "which"
  /\ vmCount = 0
  /\ processes = {}
  /\ cache = <<>>
  /\ files = {}
  /\ socks = {}
  /\ nextId = 1
  /\ pc = [i \in Ids |-> "new"]
  /\ code = [i \in Ids |-> "none"]
  /\ via = [i \in Ids |-> "none"]
  /\ res = [i \in Ids |-> NoResult]
  /\ rmFailed = [i \in Ids |-> {}]
  /\ lastRet = NoRet
  /\ faults = f
  /\ shut = "idle"
  /\ quiet = "no"
  /\ firecrackerAvailable = FALSE
  /\ checked = FALSE
  /\ outputCache = <<>>
  /\ insOrder = <<>>
  /\ lastResp = NoResp
  /\ hung = FALSE
  /\ succeeded = {}
  /\ consoleLog = 0
  /\ firstBackend = "none"
  /\ shutRun = "none"

Hosts == [fc : BOOLEAN, docker : BOOLEAN]

Init == Start(Hosts, 0)

\* an awaited environment operation succeeds, or fails while the fault
\* budget lasts
Outcomes == IF faults < MaxFaults THEN {TRUE, FALSE} ELSE {TRUE}
Charge(ok) == faults' = IF ok THEN faults ELSE faults + 1

\* the step settles no runJavaScript promise and sends no response
Quiet == lastRet' = NoRet /\ lastResp' = NoResp /\ UNCHANGED succeeded

\* ... and it is no step of shutdown()
Silent == Quiet /\ shutRun' = "none"

\* call i, running text c, moves to position p holding result r; a call
\* that is done keeps nothing
Move(i, c, p, r) ==
  /\ pc' = [pc EXCEPT ![i] = p]
  /\ code' = [code EXCEPT ![i] = IF p = "done" THEN "none" ELSE c]
  /\ res' = [res EXCEPT ![i] = IF p = "done" THEN NoResult ELSE r]

Goto(i, c, p, r) == Move(i, c, p, r) /\ Silent

(***************************************************************************)
(* Settlement of the promise runJavaScript returned for call i (made the   *)
(* way v).  A direct caller is done; the /execute handler continues after  *)
(* its await.  kept records the artifacts whose deletion failed.           *)
(***************************************************************************)
Return(i, c, v, r, failed) ==
  /\ lastRet' = [id |-> i, kind |-> "returned", res |-> r, kept |-> failed]
  /\ lastResp' = NoResp
  /\ shutRun' = "none"
  /\ succeeded' = IF v = "direct" /\ r.success THEN succeeded \cup {c} ELSE succeeded
  /\ Move(i, c, IF v = "api" THEN "h_cont" ELSE "done", r)

Reject(i, c, v) ==
  /\ lastRet' = [id |-> i, kind |-> "rejected", res |-> NoResult, kept |-> {}]
  /\ lastResp' = NoResp
  /\ shutRun' = "none"
  /\ UNCHANGED succeeded
  /\ Move(i, c, IF v = "api" THEN "h_catch" ELSE "done", NoResult)

\* what a backend step leaves alone
steady == <<host, useFirecracker, useDocker, probe, nextId, via, shut, quiet,
            firecrackerAvailable, checked, outputCache, insOrder, hung, firstBackend,
            consoleLog>>

(***************************************************************************)
(* runWithVMSandbox                                                        *)
(***************************************************************************)
\* the value script.runInContext throws for a text (timeout: executionTimeout)
Thrown(c) ==
  CASE Behaviour(c) = "throwNull" -> [isError |-> FALSE, message |-> <<>>]
    [] Behaviour(c) = "loop" -> [isError |-> TRUE, message |-> ScriptTimeoutMsg]
    [] OTHER -> [isError |-> TRUE, message |-> <<"boom">>]

\* the catch block reads error.message, which throws when error is null
SandboxCatchThrows(err) == ~err.isError

SandboxCatch(err) ==
  LET isTimeout == err.isError /\ Includes(err.message, <<"Script", "execution", "timed", "out">>)
  IN Result(FALSE, "", IF isTimeout THEN TimedOutMsg ELSE err.message, "vm-sandbox", 0)

SandboxSuccess(i, c) == Result(TRUE, Stdout(c), Stderr(c), "vm-sandbox", i)

\* the continuation after `await executionPromise`.  The promise is already
\* settled when it is awaited, so the continuation runs as a microtask; it
\* is a step of its own here, which allows every order the event loop
\* allows and some that it does not.
SandboxSettle(i) ==
  /\ pc[i] = "sb_await"
  /\ UNCHANGED <<vmCount, processes, files, socks, rmFailed, faults, steady>>
  /\ LET c == code[i] IN
     IF Behaviour(c) = "return"
     THEN /\ cache' = MapSet(cache, Md5(c), SandboxSuccess(i, c))
          /\ Return(i, c, via[i], SandboxSuccess(i, c), {})
     ELSE /\ UNCHANGED cache
          /\ IF SandboxCatchThrows(Thrown(c))
             THEN Reject(i, c, via[i])
             ELSE Return(i, c, via[i], SandboxCatch(Thrown(c)), {})

(***************************************************************************)
(* runWithFirecracker                                                      *)
(***************************************************************************)
QueueFull == Result(FALSE, "", QueueFullMsg, "firecracker-queue-full", 0)

FcFailure(msg) == Result(FALSE, "", msg, "firecracker", 0)

\* result of the try block once `node codeFile` has ended
FcExecResult(i, c) ==
  IF Behaviour(c) = "return"
  THEN Result(TRUE, Stdout(c), Stderr(c), "firecracker", i)
  ELSE FcFailure(ExecFailed(NodeCmd, Stderr(c)))

\* mutant of FcFinally: the tracked process is killed but never deregistered
FcFinallyKeepsEntry(i, r, killOk) ==
  IF i \in processes /\ ~killOk
  THEN /\ Reject(i, code[i], via[i])
       /\ UNCHANGED processes
  ELSE /\ Goto(i, code[i], "fc_rm_code", r)
       /\ UNCHANGED processes

\* start of the finally block, holding result r: kill and deregister the
\* tracked process, then start deleting the code file.  A kill that throws
\* leaves the finally block at once and rejects the promise.
FcFinally(i, r, killOk) ==
  IF i \in processes /\ ~killOk
  THEN /\ Reject(i, code[i], via[i])
       /\ UNCHANGED processes
  ELSE /\ Goto(i, code[i], "fc_rm_code", r)
       /\ processes' = processes \ {i}

FcWriteDone(i) ==
  /\ pc[i] = "fc_write"
  /\ UNCHANGED <<vmCount, cache, socks, rmFailed, steady>>
  /\ \E ok \in Outcomes :
       /\ Charge(ok)
       /\ IF ok
          THEN /\ files' = files \cup {<<i, "code">>}
               /\ Goto(i, code[i], "fc_config", NoResult)
               /\ UNCHANGED processes
          ELSE /\ UNCHANGED files
               /\ FcFinally(i, FcFailure(WriteFailedMsg), TRUE)

\* writeJson done; spawn, processes.set and the start of the boot wait
FcConfigDone(i) ==
  /\ pc[i] = "fc_config"
  /\ UNCHANGED <<vmCount, cache, rmFailed, steady>>
  /\ \E ok \in Outcomes :
       /\ Charge(ok)
       /\ IF ok
          THEN /\ files' = files \cup {<<i, "config">>}
               /\ processes' = processes \cup {i}
               /\ socks' = socks \cup {i}
               /\ Goto(i, code[i], "fc_boot", NoResult)
          ELSE /\ UNCHANGED <<files, socks>>
               /\ FcFinally(i, FcFailure(WriteFailedMsg), TRUE)

\* the boot wait is over; `node codeFile` starts and finds its file or not
FcBootDone(i) ==
  /\ pc[i] = "fc_boot"
  /\ Goto(i, code[i], "fc_exec",
          IF <<i, "code">> \in files THEN NoResult
          ELSE FcFailure(ExecFailed(NodeCmd, ModuleNotFoundMsg)))
  /\ UNCHANGED <<vmCount, processes, cache, files, socks, rmFailed, faults, steady>>

\* `node codeFile` has ended (exec is given no timeout: a text that loops
\* never ends it); the rest of try, catch and the start of finally
FcExecDone(i) ==
  /\ pc[i] = "fc_exec"
  /\ res[i] # NoResult \/ Behaviour(code[i]) # "loop"
  /\ UNCHANGED <<vmCount, files, socks, rmFailed, steady>>
  /\ LET r == IF res[i] # NoResult THEN res[i] ELSE FcExecResult(i, code[i]) IN
     /\ cache' = IF r.success THEN MapSet(cache, Md5(code[i]), r) ELSE cache
     /\ \E killOk \in (IF i \in processes THEN Outcomes ELSE {TRUE}) :
          /\ Charge(killOk)
          /\ FcFinally(i, r, killOk)

\* fs.remove(path).catch(() => {}) of one artifact has completed
Removed(i, kind, ok) ==
  /\ files' = IF ok THEN files \ {<<i, kind>>} ELSE files
  /\ rmFailed' = [rmFailed EXCEPT ![i] = IF ok THEN @ ELSE @ \cup {kind}]

RemoveOutcomes(i, kind) == IF <<i, kind>> \in files THEN Outcomes ELSE {TRUE}

FcRmCodeDone(i) ==
  /\ pc[i] = "fc_rm_code"
  /\ \E ok \in RemoveOutcomes(i, "code") :
       /\ Charge(ok)
       /\ Removed(i, "code", ok)
  /\ Goto(i, code[i], "fc_rm_config", res[i])
  /\ UNCHANGED <<vmCount, processes, cache, socks, steady>>

FcRmConfigDone(i) ==
  /\ pc[i] = "fc_rm_config"
  /\ \E ok \in RemoveOutcomes(i, "config") :
       /\ Charge(ok)
       /\ Removed(i, "config", ok)
  /\ Goto(i, code[i], "fc_rm_sock", res[i])
  /\ UNCHANGED <<vmCount, processes, cache, socks, steady>>

\* fs.unlink(socketPath) has completed; vmCount-- and the return
FcRmSockDone(i) ==
  /\ pc[i] = "fc_rm_sock"
  /\ \E ok \in (IF i \in socks THEN Outcomes ELSE {TRUE}) :
       /\ Charge(ok)
       /\ socks' = IF ok THEN socks \ {i} ELSE socks
       /\ Return(i, code[i], via[i], res[i],
                 IF ok THEN rmFailed[i] ELSE rmFailed[i] \cup {"sock"})
  /\ rmFailed' = [rmFailed EXCEPT ![i] = {}]
  /\ vmCount' = vmCount - 1
  /\ UNCHANGED <<processes, cache, files, steady>>

(***************************************************************************)
(* runWithDocker                                                           *)
(***************************************************************************)
DockerCatch(msg) ==
  LET isTimeout == Includes(msg, <<"timeout">>) \/ Includes(msg, <<"timed", "out">>)
  IN Result(FALSE, "", IF isTimeout THEN TimedOutMsg ELSE msg, "docker", 0)

\* result of try/catch once `docker run ... timeout 5 node code.js` has
\* ended; the container's timeout ends a text that loops
DockerRunResult(i, c) ==
  IF Behaviour(c) = "return"
  THEN Result(TRUE, Stdout(c), Stderr(c), "docker", i)
  ELSE DockerCatch(ExecFailed(DockerCmd, Stderr(c)))

DWriteDone(i) ==
  /\ pc[i] = "d_write"
  /\ \E ok \in Outcomes :
       /\ Charge(ok)
       /\ IF ok
          THEN /\ files' = files \cup {<<i, "code">>}
               /\ Goto(i, code[i], "d_run", NoResult)
          ELSE /\ UNCHANGED files
               /\ Goto(i, code[i], "d_rm_code", DockerCatch(WriteFailedMsg))
  /\ UNCHANGED <<vmCount, processes, cache, socks, rmFailed, steady>>

DRunDone(i) ==
  /\ pc[i] = "d_run"
  /\ LET r == DockerRunResult(i, code[i]) IN
     /\ cache' = IF r.success THEN MapSet(cache, Md5(code[i]), r) ELSE cache
     /\ Goto(i, code[i], "d_rm_code", r)
  /\ UNCHANGED <<vmCount, processes, files, socks, rmFailed, faults, steady>>

DRmCodeDone(i) ==
  /\ pc[i] = "d_rm_code"
  /\ \E ok \in RemoveOutcomes(i, "code") :
       /\ Charge(ok)
       /\ Removed(i, "code", ok)
  /\ Goto(i, code[i], "d_rm_ctr", res[i])
  /\ UNCHANGED <<vmCount, processes, cache, socks, steady>>

\* `docker rm -f` has ended, whatever its outcome; the return
DRmCtrDone(i) ==
  /\ pc[i] = "d_rm_ctr"
  /\ Return(i, code[i], via[i], res[i], rmFailed[i])
  /\ rmFailed' = [rmFailed EXCEPT ![i] = {}]
  /\ UNCHANGED <<vmCount, processes, cache, files, socks, faults, steady>>

(***************************************************************************)
(* runJavaScript of the enhanced runner: the synchronous block from the    *)
(* call to the first await of the selected backend.  v is how the call     *)
(* was made.                                                               *)
(***************************************************************************)
\* the request is handed to runWith<backend>
Dispatch(backend) ==
  firstBackend' = IF firstBackend = "none" THEN backend ELSE firstBackend

\* mutant of RunJavaScript: Docker is preferred to Firecracker
RunJavaScriptPrefersDocker(i, c, v) ==
  IF MapHas(cache, Md5(c))
  THEN /\ Return(i, c, v, [MapGet(cache, Md5(c)) EXCEPT !.fromCache = TRUE], {})
       /\ UNCHANGED <<vmCount, firstBackend>>
  ELSE IF useDocker
  THEN /\ Dispatch("docker")
       /\ Goto(i, c, "d_write", NoResult)
       /\ UNCHANGED vmCount
  ELSE IF useFirecracker
  THEN /\ Dispatch("firecracker")
       /\ IF vmCount >= maxVMs
          THEN /\ Return(i, c, v, QueueFull, {})
               /\ UNCHANGED vmCount
          ELSE /\ vmCount' = vmCount + 1
               /\ Goto(i, c, "fc_write", NoResult)
  ELSE /\ Dispatch("vm-sandbox")
       /\ Goto(i, c, "sb_await", NoResult)
       /\ UNCHANGED vmCount

\* mutant of RunJavaScript: the gate lets one call too many in
RunJavaScriptGateOffByOne(i, c, v) ==
  IF MapHas(cache, Md5(c))
  THEN /\ Return(i, c, v, [MapGet(cache, Md5(c)) EXCEPT !.fromCache = TRUE], {})
       /\ UNCHANGED <<vmCount, firstBackend>>
  ELSE IF useFirecracker
  THEN /\ Dispatch("firecracker")
       /\ IF vmCount > maxVMs
          THEN /\ Return(i, c, v, QueueFull, {})
               /\ UNCHANGED vmCount
          ELSE /\ vmCount' = vmCount + 1
               /\ Goto(i, c, "fc_write", NoResult)
  ELSE IF useDocker
  THEN /\ Dispatch("docker")
       /\ Goto(i, c, "d_write", NoResult)
       /\ UNCHANGED vmCount
  ELSE /\ Dispatch("vm-sandbox")
       /\ Goto(i, c, "sb_await", NoResult)
       /\ UNCHANGED vmCount

\* mutant of RunJavaScript: the rejected call releases a slot it never took
RunJavaScriptRejectReleases(i, c, v) ==
  IF MapHas(cache, Md5(c))
  THEN /\ Return(i, c, v, [MapGet(cache, Md5(c)) EXCEPT !.fromCache = TRUE], {})
       /\ UNCHANGED <<vmCount, firstBackend>>
  ELSE IF useFirecracker
  THEN /\ Dispatch("firecracker")
       /\ IF vmCount >= maxVMs
          THEN /\ Return(i, c, v, QueueFull, {})
               /\ vmCount' = vmCount - 1
          ELSE /\ vmCount' = vmCount + 1
               /\ Goto(i, c, "fc_write", NoResult)
  ELSE IF useDocker
  THEN /\ Dispatch("docker")
       /\ Goto(i, c, "d_write", NoResult)
       /\ UNCHANGED vmCount
  ELSE /\ Dispatch("vm-sandbox")
       /\ Goto(i, c, "sb_await", NoResult)
       /\ UNCHANGED vmCount

RunJavaScript(i, c, v) ==
  IF MapHas(cache, Md5(c))
  THEN /\ Return(i, c, v, [MapGet(cache, Md5(c)) EXCEPT !.fromCache = TRUE], {})
       /\ UNCHANGED <<vmCount, firstBackend>>
  ELSE IF useFirecracker
  THEN /\ Dispatch("firecracker")
       /\ IF vmCount >= maxVMs
          THEN /\ Return(i, c, v, QueueFull, {})
               /\ UNCHANGED vmCount
          ELSE /\ vmCount' = vmCount + 1
               /\ Goto(i, c, "fc_write", NoResult)
  ELSE IF useDocker
  THEN /\ Dispatch("docker")
       /\ Goto(i, c, "d_write", NoResult)
       /\ UNCHANGED vmCount
  ELSE /\ Dispatch("vm-sandbox")
       /\ Goto(i, c, "sb_await", NoResult)
       /\ UNCHANGED vmCount

\* a caller invokes runner.runJavaScript(c); n bounds the calls made
Call(i, c, n) ==
  /\ i = nextId
  /\ i <= n
  /\ nextId' = i + 1
  /\ via' = [via EXCEPT ![i] = "direct"]
  /\ quiet' = "no"
  /\ RunJavaScript(i, c, "direct")
  /\ UNCHANGED <<host, useFirecracker, useDocker, probe, processes, cache, files,
                 socks, rmFailed, faults, shut, apiVars, hung>>

(***************************************************************************)
(* checkAvailableExecutors, started by the constructor                     *)
(***************************************************************************)
\* `which firecracker` has ended; `docker --version` starts
ProbeWhich ==
  /\ probe = "which"
  /\ useFirecracker' = host.fc
  /\ probe' = "docker"
  /\ Silent
  /\ UNCHANGED <<host, useDocker, vmCount, processes, cache, files, socks, callVars,
                 faults, shut, quiet, apiVars, hung>>

\* `docker --version` has ended; on success the image pull starts
ProbeDocker ==
  /\ probe = "docker"
  /\ useDocker' = host.docker
  /\ probe' = IF host.docker THEN "pull" ELSE "done"
  /\ Silent
  /\ UNCHANGED <<host, useFirecracker, vmCount, processes, cache, files, socks,
                 callVars, faults, shut, quiet, apiVars, hung>>

\* `docker pull` has ended, whatever its outcome
ProbePull ==
  /\ probe = "pull"
  /\ probe' = "done"
  /\ Silent
  /\ UNCHANGED <<host, useFirecracker, useDocker, vmCount, processes, cache, files,
                 socks, callVars, faults, shut, quiet, apiVars, hung>>

(***************************************************************************)
(* clearCache and shutdown                                                 *)
(***************************************************************************)
ClearCache ==
  /\ cache # <<>>
  /\ cache' = <<>>
  /\ Silent
  /\ UNCHANGED <<host, useFirecracker, useDocker, probe, vmCount, processes, files,
                 socks, callVars, faults, shut, quiet, apiVars, hung>>

\* shutdown() up to its await: every tracked process is killed (a kill that
\* throws is caught), the registry is cleared, fs.emptyDir starts
ShutdownStart ==
  /\ shut = "idle"
  /\ processes' = {}
  /\ shut' = "emptying"
  /\ shutRun' = CASE shutRun \in {"ok", "ok_twice"} -> "again_ok"
                   [] shutRun = "failed" -> "again_failed"
                   [] OTHER -> "started"
  /\ Quiet
  /\ UNCHANGED <<host, useFirecracker, useDocker, probe, vmCount, cache, files, socks,
                 callVars, faults, quiet, apiVars, hung>>

\* mutant of ShutdownDone: one file is removed instead of all of them
ShutdownDoneRemovesOne ==
  /\ shut = "emptying"
  /\ \E ok \in (IF files # {} THEN Outcomes ELSE {TRUE}) :
       /\ Charge(ok)
       /\ files' = IF ok /\ files # {} THEN files \ {CHOOSE f \in files : TRUE} ELSE files
       /\ quiet' = IF ok THEN "yes" ELSE "no"
       /\ shutRun' = CASE shutRun = "none" -> "none"
                        [] ~ok -> "failed"
                        [] shutRun = "again_ok" -> "ok_twice"
                        [] OTHER -> "ok"
  /\ shut' = "idle"
  /\ Quiet
  /\ UNCHANGED <<host, useFirecracker, useDocker, probe, vmCount, processes, cache,
                 socks, callVars, apiVars, hung>>

\* fs.emptyDir has ended (a failure is caught); shutdown() returns
ShutdownDone ==
  /\ shut = "emptying"
  /\ \E ok \in (IF files # {} THEN Outcomes ELSE {TRUE}) :
       /\ Charge(ok)
       /\ files' = IF ok THEN {} ELSE files
       /\ quiet' = IF ok THEN "yes" ELSE "no"
       /\ shutRun' = CASE shutRun = "none" -> "none"
                        [] ~ok -> "failed"
                        [] shutRun = "again_ok" -> "ok_twice"
                        [] OTHER -> "ok"
  /\ shut' = "idle"
  /\ Quiet
  /\ UNCHANGED <<host, useFirecracker, useDocker, probe, vmCount, processes, cache,
                 socks, callVars, apiVars, hung>>
(***************************************************************************)
(* src/index.js                                                            *)
(***************************************************************************)
\* checkFirecracker: `which firecracker` has ended
CheckFirecracker ==
  /\ ~hung
  /\ ~checked
  /\ checked' = TRUE
  /\ firecrackerAvailable' = host.fc
  /\ Silent
  /\ UNCHANGED <<host, runnerVars, callVars, faults, shut, quiet, outputCache,
                 insOrder, hung, consoleLog>>

\* executeLocalJS: vm.runInNewContext is given no timeout; console.error of
\* the text goes to the real console and is not captured; the catch block
\* reads error.message
LocalBehaviour(c) ==
  CASE Behaviour(c) = "loop" -> "hangs"
    [] Behaviour(c) = "throwNull" -> "rejects"
    [] OTHER -> "resolves"

\* console.log after executeLocalJS of request i: the function saved
\* before the run is put back only on the line after runInNewContext,
\* which a text that throws never reaches
LocalConsole(i, c, before) == IF Behaviour(c) = "return" THEN before ELSE i

LocalResult(c) ==
  IF Behaviour(c) = "return"
  THEN Result(TRUE, Stdout(c), <<>>, "local", 0)
  ELSE Result(FALSE, "", <<"boom">>, "local", 0)

\* mutant of StoreOutput: the entry dropped is the newest one
StoreOutputDropsNewest(oc, key, r) ==
  IF r.success /\ r.error = <<>>
  THEN LET m == MapSet(oc, key, r)
       IN IF Len(m) > CacheCapacity THEN MapDelete(m, m[Len(m)].key) ELSE m
  ELSE oc

\* mutant of StoreOutput: the store adds an entry without looking for the
\* key, as a store would that acted on the lookup made before the await
StoreOutputAddsEntry(oc, key, r) ==
  IF r.success /\ r.error = <<>>
  THEN LET m == Append(oc, [key |-> key, val |-> r])
       IN IF Len(m) > CacheCapacity THEN Tail(m) ELSE m
  ELSE oc

\* lines 88-97: cache a clean success, then drop the oldest entry when the
\* cache has grown past its capacity
StoreOutput(oc, key, r) ==
  IF r.success /\ r.error = <<>>
  THEN LET m == MapSet(oc, key, r)
       IN IF Len(m) > CacheCapacity THEN MapDelete(m, MapFirstKey(m)) ELSE m
  ELSE oc

\* history of insertions: a key enters at the end when it becomes present
\* and leaves when it is no longer present
Inserted(order, before, after, key) ==
  SelectSeq(order, LAMBDA k : k \in after)
    \o (IF key \in after /\ key \notin before THEN <<key>> ELSE <<>>)

\* res.json(body) / res.status(500).json(...): the handler is done
Respond(i, c, status, body) ==
  /\ lastResp' = [id |-> i, status |-> status, body |-> body]
  /\ lastRet' = NoRet
  /\ shutRun' = "none"
  /\ succeeded' = IF status = 200 /\ body.success THEN succeeded \cup {c} ELSE succeeded
  /\ Move(i, "none", "done", NoResult)

\* POST /execute with body {code: c}: the handler up to its first await
Execute(i, c, n) ==
  /\ ~hung
  /\ i = nextId
  /\ i <= n
  /\ nextId' = i + 1
  /\ via' = [via EXCEPT ![i] = "api"]
  /\ quiet' = "no"
  /\ UNCHANGED <<host, useFirecracker, useDocker, probe, processes, cache, files,
                 socks, rmFailed, faults, shut, firecrackerAvailable, checked,
                 outputCache, insOrder>>
  /\ IF MapHas(outputCache, Md5(c))
     THEN /\ Respond(i, c, 200, MapGet(outputCache, Md5(c)))
          /\ UNCHANGED <<vmCount, hung, firstBackend, consoleLog>>
     ELSE IF firecrackerAvailable
     THEN /\ RunJavaScript(i, c, "api")
          /\ UNCHANGED <<hung, consoleLog>>
     ELSE /\ Goto(i, c, CASE LocalBehaviour(c) = "hangs" -> "h_hung"
                          [] LocalBehaviour(c) = "rejects" -> "h_catch"
                          [] OTHER -> "h_local",
                  IF LocalBehaviour(c) = "resolves" THEN LocalResult(c) ELSE NoResult)
          /\ hung' = (LocalBehaviour(c) = "hangs")
          /\ consoleLog' = LocalConsole(i, c, consoleLog)
          /\ UNCHANGED <<vmCount, firstBackend>>

\* the handler after its await: relabel a runner result (the object the
\* runner cached is the same object), cache, respond
HandlerCont(i) ==
  /\ ~hung
  /\ pc[i] \in {"h_cont", "h_local"}
  /\ LET key == Md5(code[i])
         r == IF pc[i] = "h_cont" THEN [res[i] EXCEPT !.mode = "firecracker"] ELSE res[i]
         shared == /\ pc[i] = "h_cont"
                   /\ res[i].success
                   /\ ~res[i].fromCache
                   /\ MapHas(cache, key)
                   /\ MapGet(cache, key).xid = res[i].xid
     IN /\ cache' = IF shared THEN MapSet(cache, key, r) ELSE cache
        /\ outputCache' = StoreOutput(outputCache, key, r)
        /\ insOrder' = Inserted(insOrder, MapKeys(outputCache), MapKeys(outputCache'), key)
        /\ Respond(i, code[i], 200, r)
  /\ UNCHANGED <<host, useFirecracker, useDocker, probe, vmCount, processes, files,
                 socks, nextId, via, rmFailed, faults, shut, quiet,
                 firecrackerAvailable, checked, hung, firstBackend, consoleLog>>

\* the handler's catch: the awaited promise rejected
HandlerCatch(i) ==
  /\ ~hung
  /\ pc[i] = "h_catch"
  /\ Respond(i, code[i], 500, NoResult)
  /\ UNCHANGED <<host, runnerVars, nextId, via, rmFailed, faults, shut, quiet,
                 apiVars, hung, firstBackend>>

(***************************************************************************)
(* src/firecracker-runner.js: runJavaScript by direct execution.  The      *)
(* class has the same fields tempDir, vmCount, maxVMs; it has no cache.    *)
(***************************************************************************)
DirectFailure(msg) == Result(FALSE, "", msg, "direct-execution", 0)

DirectExecResult(i, c) ==
  IF Behaviour(c) = "return"
  THEN Result(TRUE, Stdout(c), Stderr(c), "direct-execution", i)
  ELSE DirectFailure(ExecFailed(NodeCmd, Stderr(c)))

\* the literal of lines 24-28 has no mode field
DirectQueueFull == Result(FALSE, "", QueueFullMsg, "", 0)

DirectCall(i, c, n) ==
  /\ i = nextId
  /\ i <= n
  /\ nextId' = i + 1
  /\ via' = [via EXCEPT ![i] = "direct"]
  /\ IF vmCount >= maxVMs
     THEN /\ Return(i, c, "direct", DirectQueueFull, {})
          /\ UNCHANGED vmCount
     ELSE /\ vmCount' = vmCount + 1
          /\ Goto(i, c, "x_write", NoResult)
  /\ UNCHANGED <<host, useFirecracker, useDocker, probe, processes, cache, files,
                 socks, rmFailed, faults, shut, quiet, apiVars, hung, firstBackend>>

DirectWriteDone(i) ==
  /\ pc[i] = "x_write"
  /\ \E ok \in Outcomes :
       /\ Charge(ok)
       /\ IF ok
          THEN /\ files' = files \cup {<<i, "code">>}
               /\ Goto(i, code[i], "x_exec", NoResult)
          ELSE /\ UNCHANGED files
               /\ Goto(i, code[i], "x_rm", DirectFailure(WriteFailedMsg))
  /\ UNCHANGED <<vmCount, processes, cache, socks, rmFailed, steady>>

\* `node codeFile` has ended (no timeout is given)
DirectExecDone(i) ==
  /\ pc[i] = "x_exec"
  /\ Behaviour(code[i]) # "loop"
  /\ Goto(i, code[i], "x_rm", DirectExecResult(i, code[i]))
  /\ UNCHANGED <<vmCount, processes, cache, files, socks, rmFailed, faults, steady>>

\* finally: try { await fs.remove(codeFile); this.vmCount--; } catch { log }
DirectRmDone(i) ==
  /\ pc[i] = "x_rm"
  /\ \E ok \in RemoveOutcomes(i, "code") :
       /\ Charge(ok)
       /\ files' = IF ok THEN files \ {<<i, "code">>} ELSE files
       /\ vmCount' = IF ok THEN vmCount - 1 ELSE vmCount
       /\ Return(i, code[i], "direct", res[i], IF ok THEN {} ELSE {"code"})
  /\ UNCHANGED <<processes, cache, socks, rmFailed, steady>>

(***************************************************************************)
(* Specifications                                                          *)
(***************************************************************************)
RunnerCodes == {"log1", "warn", "throw", "thrownull", "loop"}
GateCodes == {"log1", "loop"}
ApiCodes == {"log1", "log2", "log3", "warn", "throw", "thrownull", "loop"}
DirectCodes == {"log1", "warn", "throw", "loop"}

Sandbox(i) == SandboxSettle(i)

Firecracker(i) ==
  \/ FcWriteDone(i) \/ FcConfigDone(i) \/ FcBootDone(i) \/ FcExecDone(i)
  \/ FcRmCodeDone(i) \/ FcRmConfigDone(i) \/ FcRmSockDone(i)

Docker(i) == DWriteDone(i) \/ DRunDone(i) \/ DRmCodeDone(i) \/ DRmCtrDone(i)

Probe == ProbeWhich \/ ProbeDocker \/ ProbePull

\* the enhanced runner, called directly
Next ==
  \/ Probe
  \/ \E c \in RunnerCodes : Call(nextId, c, MaxCalls)
  \/ \E i \in Ids : Sandbox(i) \/ Firecracker(i) \/ Docker(i)
  \/ ClearCache
  \/ ShutdownStart
  \/ ShutdownDone

Spec == Init /\ [][Next]_vars

\* the enhanced runner under load, in an environment without faults
InitGate == Start(Hosts, MaxFaults)

NextGate ==
  \/ Probe
  \/ \E c \in GateCodes : Call(nextId, c, GateCalls)
  \/ \E i \in Ids : Sandbox(i) \/ Firecracker(i) \/ Docker(i)

SpecGate == InitGate /\ [][NextGate]_vars

\* the enhanced runner and its teardown: executions that succeed, fail and
\* time out, in an environment where file and process operations may fail
TeardownCodes == {"log1", "throw", "loop"}

NextTeardown ==
  \/ Probe
  \/ \E c \in TeardownCodes : Call(nextId, c, MaxCalls)
  \/ \E i \in Ids : Sandbox(i) \/ Firecracker(i) \/ Docker(i)

SpecTeardown == Init /\ [][NextTeardown]_vars

\* the enhanced runner and shutdown(), invoked at any moment and any number
\* of times, on a host with Firecracker
InitShutdown == Start({[fc |-> TRUE, docker |-> FALSE]}, 0)

ShutdownCodes == {"log1"}

NextShutdown ==
  \/ ProbeWhich \/ ProbeDocker
  \/ \E c \in ShutdownCodes : Call(nextId, c, MaxCalls)
  \/ \E i \in Ids : Sandbox(i) \/ Firecracker(i)
  \/ ShutdownStart
  \/ ShutdownDone

SpecShutdown == InitShutdown /\ [][NextShutdown]_vars

\* the /execute handler in front of the enhanced runner, on a host without
\* Docker (the handler calls the runner only where Firecracker is found),
\* in an environment without faults; nothing runs while the event loop is
\* stuck
InitApi == Start([fc : BOOLEAN, docker : {FALSE}], MaxFaults)

Awake(A) == ~hung /\ A

NextApi ==
  \/ CheckFirecracker
  \/ Awake(ProbeWhich \/ ProbeDocker)
  \/ \E c \in ApiCodes : Execute(nextId, c, ApiCalls)
  \/ \E i \in Ids : Awake(Sandbox(i) \/ Firecracker(i))
  \/ \E i \in Ids : HandlerCont(i) \/ HandlerCatch(i)

SpecApi == InitApi /\ [][NextApi]_vars

\* the slot pool of the enhanced runner on a host with Firecracker: more
\* calls than slots, in an environment where operations may fail
InitPool == Start({[fc |-> TRUE, docker |-> FALSE]}, 0)

NextPool ==
  \/ ProbeWhich \/ ProbeDocker
  \/ \E c \in GateCodes : Call(nextId, c, GateCalls)
  \/ \E i \in Ids : Sandbox(i) \/ Firecracker(i)

SpecPool == InitPool /\ [][NextPool]_vars

\* the direct-execution runner
InitDirect == Start({[fc |-> FALSE, docker |-> FALSE]}, 0)

NextDirect ==
  \/ \E c \in DirectCodes : DirectCall(nextId, c, GateCalls)
  \/ \E i \in Ids : DirectWriteDone(i) \/ DirectExecDone(i) \/ DirectRmDone(i)

SpecDirect == InitDirect /\ [][NextDirect]_vars

\* the enhanced runner under load with its scheduling: the continuation of
\* an awaited operation that has completed is eventually run
FairSpecGate ==
  /\ InitGate
  /\ [][NextGate]_vars
  /\ WF_vars(Probe)
  /\ \A i \in Ids : WF_vars(Sandbox(i) \/ Firecracker(i) \/ Docker(i))

(***************************************************************************)
(* Claims                                                                  *)
(***************************************************************************)
InFlight == {i \in Ids : pc[i] \notin {"new", "done"}}

\* the calls whose backend is running the submitted text
Executing == {i \in Ids : pc[i] \in {"fc_exec", "d_run", "x_exec"}}

\* C1: whichever backend is selected, the number of backend executions
\* that are active at the same time never exceeds maxVMs.
C1_ActiveWithinMaxVMs == Cardinality(Executing) <= maxVMs

\* C2: every runJavaScript call eventually returns, also when the submitted
\* text never terminates on its own.
C2_EveryCallReturns == \A i \in Ids : (pc[i] # "new") ~> (pc[i] = "done")

\* C3: every call that acquired a slot releases it before it returns, so
\* that vmCount is 0 whenever no execution is in flight.
C3_IdleMeansNoSlotHeld == (InFlight = {}) => (vmCount = 0)

Artifacts(i) ==
  {k \in {"code", "config"} : <<i, k>> \in files} \cup (IF i \in socks THEN {"sock"} ELSE {})

\* C4 as claimed: when an execution returns its outcome, no artifact of its
\* id remains and the processes registry has no entry for it.
C4_NoArtifactRemains ==
  (lastRet.kind = "returned") => (Artifacts(lastRet.id) = {} /\ lastRet.id \notin processes)

\* C4 as amended: when an execution returns its outcome, the processes
\* registry has no entry for its id, and each of its artifacts (code file,
\* config file, socket path) is gone unless the attempt to delete it failed.
C4_NoArtifactRemainsUnlessDeletionFailed ==
  (lastRet.kind = "returned") =>
     (Artifacts(lastRet.id) \subseteq lastRet.kept /\ lastRet.id \notin processes)

\* a Firecracker execution that wrote its files and spawned its process has
\* returned its own successful result: its registry entry is gone, and the
\* one file whose deletion failed is all that is left of it
C4_Witness ==
  /\ lastRet.kind = "returned"
  /\ lastRet.res.mode = "firecracker"
  /\ lastRet.res.success
  /\ ~lastRet.res.fromCache
  /\ lastRet.id \notin processes
  /\ Artifacts(lastRet.id) # {}
  /\ Artifacts(lastRet.id) = lastRet.kept

\* C5: once a submission of a text has completed successfully, a later
\* submission of the same text is answered at once, without a backend, with
\* fromCache = true and the output of the text; at the /execute handler the
\* answer is the response, or the runner's return that the handler forwards.
C5_RepeatIsServedFromCache ==
  [][\A c \in ApiCodes :
       (Execute(nextId, c, ApiCalls) /\ c \in succeeded) =>
          \/ /\ lastResp'.id = nextId
             /\ lastResp'.body.fromCache
             /\ lastResp'.body.output = Stdout(c)
          \/ /\ lastRet'.id = nextId
             /\ lastRet'.res.fromCache
             /\ lastRet'.res.output = Stdout(c)]_vars

CleanSuccess(r) == r.success /\ r.error = <<>>

\* C6: every entry of the runner's cache and of the handler's outputCache
\* has success = true and an empty error.
C6_CachesHoldCleanSuccesses ==
  /\ \A k \in 1..Len(cache) : CleanSuccess(cache[k].val)
  /\ \A k \in 1..Len(outputCache) : CleanSuccess(outputCache[k].val)

\* C7: neither result cache ever holds more entries than the capacity.
C7_CachesWithinCapacity ==
  /\ Len(cache) <= CacheCapacity
  /\ Len(outputCache) <= CacheCapacity

KeysInOrder(m) == [k \in 1..Len(m) |-> m[k].key]

\* C8: eviction from outputCache is first-in first-out: a step removes at
\* most one key, only when a store of a new key finds the cache full, and
\* then the earliest-inserted key; a stored clean success is retrievable
\* afterwards, and a store that finds the cache full of other keys evicts;
\* the keys stay in the order of their insertion, whatever hits and
\* repeated stores happen.
C8_EvictionIsFifo ==
  [][LET before == MapKeys(outputCache)
         after == MapKeys(outputCache')
     IN /\ Cardinality(before \ after) <= 1
        /\ (before \ after # {}) =>
              /\ Len(outputCache) = CacheCapacity
              /\ after \ before # {}
              /\ before \ after = {insOrder[1]}
        /\ \A i \in Ids :
              (HandlerCont(i) /\ CleanSuccess(lastResp'.body)) =>
                 /\ Md5(code[i]) \in after
                 /\ (Len(outputCache) = CacheCapacity /\ Md5(code[i]) \notin before)
                       => (before \ after = {insOrder[1]})
        /\ KeysInOrder(outputCache') = insOrder']_vars

\* the cache is full and the text that succeeded first is no longer in it
C8_Witness ==
  /\ Len(outputCache) = CacheCapacity
  /\ \E c \in {"log1", "log2", "log3"} :
       c \in succeeded /\ ~MapHas(outputCache, Md5(c))

\* C9: runJavaScript always resolves to a result; its promise never rejects.
C9_NeverRejects == lastRet.kind # "rejected"

\* C10: once shutdown() has completed, the processes registry and the
\* scratch directory are empty until a new request is submitted.
C10_EmptyAfterShutdown == (quiet = "yes") => (processes = {} /\ files = {})

ShutdownStep == ShutdownStart \/ ShutdownDone

Backends == {"firecracker", "docker", "vm-sandbox"}

\* the step hands call i to the backend b: the call is in the first await
\* of runWith<b>, or runWithFirecracker has returned the queue-full result
Chose(i, b) ==
  /\ pc[i] = "new"
  /\ CASE b = "vm-sandbox" -> pc'[i] = "sb_await"
       [] b = "docker" -> pc'[i] = "d_write"
       [] OTHER -> \/ pc'[i] = "fc_write"
                   \/ lastRet'.id = i /\ lastRet'.res.mode = "firecracker-queue-full"

\* C12: any two requests that miss the cache are dispatched to the same
\* backend, whenever they arrive relative to the capability probe.
C12_OneBackendForAllRequests ==
  [][\A i \in Ids : \A b \in Backends :
       (Chose(i, b) /\ firstBackend # "none") => (b = firstBackend)]_vars


\* the strongest backend whose capability bit is set
Strongest ==
  IF useFirecracker THEN "firecracker" ELSE IF useDocker THEN "docker" ELSE "vm-sandbox"

\* C13: a request that misses the cache is dispatched to the strongest
\* backend whose capability bit is set at that moment, in the order
\* Firecracker > Docker > VM sandbox; a capability check that fails leaves
\* its bit cleared and the probe goes on to its end: a bit is set only for
\* a mechanism the host has, and no bit is set before its check has ended.
C13_StrongestCapableBackend ==
  /\ [][\A i \in Ids : \A b \in Backends : Chose(i, b) => (b = Strongest)]_vars
  /\ [](useFirecracker = (probe # "which" /\ host.fc))
  /\ [](useDocker = (probe \in {"pull", "done"} /\ host.docker))
  /\ [][probe = "which" => probe' \in {"which", "docker"}]_vars
  /\ [][probe = "docker" => probe' \in {"docker", "pull", "done"}]_vars

\* on a host that has both mechanisms, with both bits set, a request has
\* been handed to Firecracker
C13_Witness ==
  /\ useFirecracker /\ useDocker
  /\ \E i \in Ids : pc[i] = "fc_write"


\* C14: the slot counter is never negative and never above maxVMs.
C14_SlotCounterInRange == 0 <= vmCount /\ vmCount <= maxVMs

\* every slot is taken by an execution in flight
C14_Witness ==
  /\ vmCount = maxVMs
  /\ Cardinality({i \in Ids : pc[i] \in {"fc_write", "fc_config", "fc_boot", "fc_exec"}}) = maxVMs

\* C15: a request that misses the cache and finds the pool saturated is
\* answered in the same step with the queue-full result, and the step
\* leaves vmCount, the processes registry, the scratch directory, the
\* sockets and the cache as they are; the call is over, with no cleanup to
\* run and no backend started.
C15_RejectionChangesNothing ==
  [][\A c \in GateCodes :
       (/\ Call(nextId, c, GateCalls)
        /\ useFirecracker
        /\ vmCount >= maxVMs
        /\ ~MapHas(cache, Md5(c)))
       => /\ lastRet' = [id |-> nextId, kind |-> "returned", res |-> QueueFull, kept |-> {}]
          /\ pc'[nextId] = "done"
          /\ UNCHANGED <<vmCount, processes, files, socks, cache>>]_vars

\* a call has just been rejected by the saturated pool
C15_Witness ==
  /\ lastRet.kind = "returned"
  /\ lastRet.res.mode = "firecracker-queue-full"
  /\ vmCount >= maxVMs


UniqueKeys(m) == \A j, k \in 1..Len(m) : (m[j].key = m[k].key) => (j = k)

\* C16: stores by several requests in flight act one after the other on
\* each key: a cache never holds two entries for a key; a store of a key
\* that is present replaces its value and evicts nothing; every store
\* takes effect (right after it the key maps to the stored result); the
\* runner's cache loses no key, and outputCache loses at most the
\* earliest-inserted key, when a new key overflows it.
C16_StoresAreAtomicPerKey ==
  /\ [](UniqueKeys(cache) /\ UniqueKeys(outputCache))
  /\ [][\A i \in Ids :
          /\ (HandlerCont(i) /\ MapHas(outputCache, Md5(code[i])))
                => MapKeys(outputCache') = MapKeys(outputCache)
          /\ (HandlerCont(i) /\ CleanSuccess(lastResp'.body))
                => /\ MapHas(outputCache', Md5(code[i]))
                   /\ MapGet(outputCache', Md5(code[i])) = lastResp'.body
          /\ (FcExecDone(i) /\ res'[i].success)
                => /\ MapHas(cache', Md5(code[i]))
                   /\ MapGet(cache', Md5(code[i])) = res'[i]
          /\ (SandboxSettle(i) /\ lastRet'.res.success)
                => /\ MapHas(cache', Md5(code[i]))
                   /\ MapGet(cache', Md5(code[i])) = lastRet'.res]_vars
  /\ [][MapKeys(cache) \subseteq MapKeys(cache')]_vars
  /\ [][Cardinality(MapKeys(outputCache) \ MapKeys(outputCache')) <= 1]_vars

\* a request that missed both caches has stored its own fresh result under
\* a key that another request had stored while it was in flight: the entry
\* kept its place before a key inserted later
C16_Witness ==
  /\ lastResp.status = 200
  /\ lastResp.body.success
  /\ ~lastResp.body.fromCache
  /\ lastResp.body.xid = lastResp.id
  /\ Len(outputCache) = 2
  /\ outputCache[1].val = lastResp.body


\* C17: a failed Docker run is reported as 'Execution timed out' exactly
\* when the text was ended by the execution timeout; any other failure
\* keeps its own message.
C17_DockerTimeoutOnlyOnTimeout ==
  [][\A i \in Ids :
       /\ (DRunDone(i) /\ ~res'[i].success)
            => ((res'[i].error = TimedOutMsg) <=> (Behaviour(code[i]) = "loop"))
       /\ (DWriteDone(i) /\ pc'[i] = "d_rm_code")
            => res'[i].error = WriteFailedMsg
       /\ DRmCtrDone(i) => lastRet'.res = res[i]]_vars

\* C18: the teardown of a Firecracker execution goes through all of its
\* sub-steps whatever fails: once try/catch has produced the result, the
\* deletion of the code file, of the config file and of the socket path
\* are started in turn, and the call returns the result the execution
\* produced.
C18_TeardownIsBestEffort ==
  [][\A i \in Ids :
       /\ (pc[i] = "fc_exec" /\ pc'[i] # "fc_exec")
            => pc'[i] = "fc_rm_code"
       /\ (pc[i] = "fc_rm_code" /\ pc'[i] # "fc_rm_code")
            => (pc'[i] = "fc_rm_config" /\ res'[i] = res[i])
       /\ (pc[i] = "fc_rm_config" /\ pc'[i] # "fc_rm_config")
            => (pc'[i] = "fc_rm_sock" /\ res'[i] = res[i])
       /\ (pc[i] = "fc_rm_sock" /\ pc'[i] # "fc_rm_sock")
            => (lastRet'.id = i /\ lastRet'.kind = "returned" /\ lastRet'.res = res[i])]_vars

\* C19: the /execute handler answers with the result as the runner
\* returned it, mode included, and leaves the entries of the runner's
\* cache as they are.
C19_ModeNamesTheBackend ==
  [][\A i \in Ids :
       (HandlerCont(i) /\ pc[i] = "h_cont")
       => (lastResp'.body.mode = res[i].mode /\ cache' = cache)]_vars


\* C20: a request that executeLocalJS has run to its return, the text
\* having ended or thrown, leaves console.log the function it was before
\* the request.
C20_ConsoleLogRestored ==
  [][\A c \in ApiCodes :
       (Execute(nextId, c, ApiCalls) /\ LocalBehaviour(c) = "resolves")
          => (consoleLog' = consoleLog)]_vars

=============================================================================
